---- MODULE Spec2Model ----
(***************************************************************************)
(* Model of the post-processing controller ImageProcessor of               *)
(* XR_APILAYER_NOVENDOR_toolkit/imageprocess.cpp: reload(), update(),      *)
(* process(), createRenderResources(), checkUpdateConfig() and             *)
(* updateConfig(), together with the two collaborators it drives: the      *)
(* configuration manager (settings, preset, mode, per-key change flags)    *)
(* and the graphics device (shader and buffer handles, the calls issued).  *)
(*                                                                         *)
(* Floating values are exact rationals here.  A raw setting and a bias are *)
(* integers in thousandths; a gain is an integer in thousandths; a         *)
(* component of the parameter block is their product, in millionths        *)
(* (1.0 = Unit).                                                           *)
(***************************************************************************)
EXTENDS Integers, Sequences, FiniteSets, TLC

\* ------------------------------------------------------------------ bounds
\* Number of setting writes (tunables and preset) explored in one behaviour.
MaxChanges == 2

\* --------------------------------------------------------------- constants
\* "* 0.001f": raw settings are thousandths.
Scale == 1000
\* The value of the four Params1 tunables when no configuration is given.
RawDefault == 500
\* 1.0 in the units of the parameter block.
Unit == Scale * Scale

\* PostProcessType; "Other" stands for a further non-Off mode, which the
\* generic implementation of update() is written to support.
Off == "Off"
Modes == {"Off", "On", "Other"}

\* PostSunGlassesType ordinals: none, light, dark, night.
Presets == 0 .. 3

\* The raw value a tunable is written with in the explored behaviours: the
\* top of its range, which differs from every default.
RawValues == {Scale}

\* The watched keys, in the order checkUpdateConfig queries them.
Keys ==
    << "SunGlasses", "Contrast", "Brightness", "Exposure", "Saturation",
       "Vibrance", "Highlights", "Shadows", "ColorGainR", "ColorGainG",
       "ColorGainB" >>

KeySet == { Keys[i] : i \in 1 .. Len(Keys) }

Tunables == KeySet \ {"SunGlasses"}

\* The tunables written in the explored behaviours: one of each parameter
\* group, at the head, in the middle and at the tail of the query order.
WrittenKeys == {"Contrast", "Vibrance", "ColorGainB"}

VARIABLES
    cfgMode,      \* configuration: SettingPostProcess
    cfgPreset,    \* configuration: SettingPostSunGlasses
    cfgValues,    \* configuration: the ten tunables
    changed,      \* configuration: keys changed since they were last queried
    nChanges,     \* number of setting writes so far
    m_mode,       \* ImageProcessor::m_mode
    m_config,     \* ImageProcessor::m_config
    m_shaders,    \* ImageProcessor::m_shaders (off, on, vprt), 1-based
    m_cbParams,   \* ImageProcessor::m_cbParams, with the buffer's contents
    op,           \* the operation that led to this state
    failed,       \* whether that operation ended by a propagated failure
    recomputes,   \* runs of updateConfig during that operation
    calls,        \* the device calls issued during that operation
    pre           \* what held when that operation was called

vars ==
    << cfgMode, cfgPreset, cfgValues, changed, nChanges, m_mode, m_config,
       m_shaders, m_cbParams, op, failed, recomputes, calls, pre >>

cfgVars == << cfgMode, cfgPreset, cfgValues, changed, nChanges >>

\* ------------------------------------------------------- parameter block
kGain ==
    << << 1000, 800, 3000, 1000 >>,
       << 1000, 1000, 1000, 1000 >>,
       << 1000, 500, 1000, 1000 >> >>

kBias ==
    << << << 0, 0, 0, 0 >>, << 0, 0, 0, 0 >>, << 0, 0, 0, 0 >> >>,
       << << 25, -50, -50, 0 >>, << 0, 0, 0, 0 >>, << 20, 0, 0, 0 >> >>,
       << << 25, -100, -100, 0 >>, << 0, 0, 0, 0 >>, << 400, 50, 0, 0 >> >>,
       << << 5, -400, 200, -150 >>, << 0, 0, 0, 0 >>, << 750, 150, 25, 0 >> >> >>

\* GetUserParams(configManager, 0): the default profile, empty suffix.
GetUserParams(values) ==
    << << values["Contrast"], values["Brightness"], values["Exposure"],
          values["Saturation"] >>,
       << values["ColorGainR"], values["ColorGainG"], values["ColorGainB"], 0 >>,
       << values["Highlights"], values["Shadows"], values["Vibrance"], 0 >> >>

\* Faulty variant: a sum outside the range wraps around instead of saturating.
XMVectorWrap(x) == x % (Scale + 1)

\* Faulty variant: the biased sum is not clamped at all.
XMVectorNoClamp(x) == x

\* XMVectorSaturate(x * 0.001f), x in thousandths: clamp to [0, 1].
XMVectorSaturate(x) == IF x < 0 THEN 0 ELSE IF x > Scale THEN Scale ELSE x

\* Faulty variant: the remap to [-1, +1] loses its "- 1".
SignedParamNoOffset(u, b, g) == XMVectorSaturate(u + b) * 2 * g

\* Faulty variant: the preset's bias is not added.
SignedParamNoBias(u, b, g) == (XMVectorSaturate(u) * 2 - Scale) * g

\* (saturate((u + b) * 0.001) * 2.0 - 1) * g, in millionths.
SignedParam(u, b, g) == (XMVectorSaturate(u + b) * 2 - Scale) * g

\* saturate((u + b) * 0.001) * g, in millionths.
UnsignedParam(u, b, g) == XMVectorSaturate(u + b) * g

\* The block updateConfig computes from the settings and the row kb it read
\* from kBias.
ConfigFrom(values, kb) ==
    LET userParams == GetUserParams(values)
    IN  [ Params1 |-> [ i \in 1 .. 4 |->
                          SignedParam(userParams[1][i], kb[1][i], kGain[1][i]) ],
          Params2 |-> [ i \in 1 .. 4 |->
                          SignedParam(userParams[2][i], kb[2][i], kGain[2][i]) ],
          Params3 |-> [ i \in 1 .. 4 |->
                          UnsignedParam(userParams[3][i], kb[3][i], kGain[3][i]) ] ]

\* The block updateConfig stores in m_config for an ordinal of the table.
ComputeConfig(values, bias) == ConfigFrom(values, kBias[bias + 1])

\* to_integral(PostSunGlassesType::MaxValue): the number of rows of kBias.
MaxValue == 4

\* The ordinals the preset setting can hold: those of the table and the one
\* just past it.
Ordinals == 0 .. MaxValue

\* What may lie in memory where a row past the end of kBias would be.
StrayRows ==
    { [ grp \in 1 .. 3 |-> [ i \in 1 .. 4 |-> v ] ] : v \in {0 - Scale, 0, Scale} }

\* kBias[bias], read without a check of bias: a row of the table for an
\* ordinal of the table, anything for another (the read is undefined).
ReadBias(bias) ==
    IF bias \in Presets THEN { kBias[bias + 1] } ELSE StrayRows

\* The outcomes of updateConfig: it completes with the block it stores and
\* uploads, or, for an ordinal outside kBias, the undefined read may also
\* end the process (abort).
updateConfig(values, bias) ==
    { [ abort |-> FALSE, block |-> ConfigFrom(values, kb) ] : kb \in ReadBias(bias) }
    \cup { [ abort |-> TRUE, block |-> ConfigFrom(values, kBias[1]) ] :
             x \in IF bias \in Presets THEN {} ELSE {0} }

\* ------------------------------------------------------------ the device
Call(c, a, s) == [ call |-> c, arg |-> a, slice |-> s ]

\* The slice recorded for a call that takes none.
NoSlice == 0 - 1

\* A handle records which run of createRenderResources built it: the latest
\* one ("current") or an earlier one ("previous").
createQuadShader(entry, vprt) ==
    [ entry |-> entry, vprt |-> vprt, build |-> "current" ]

Previous(handle) == [ handle EXCEPT !.build = "previous" ]

\* The three programs createRenderResources builds, in slot order.
ShaderOf(i) ==
    CASE i = 1 -> createQuadShader("mainPassThrough", FALSE)
      [] i = 2 -> createQuadShader("mainPostProcess", FALSE)
      [] i = 3 -> createQuadShader("mainPostProcess", TRUE)

createBuffer == [ build |-> "current", data |-> "uninitialized" ]

\* Faulty variant: the upload stops short of the third group of the block.
uploadTwoGroups(buffer, data) ==
    [ buffer EXCEPT !.data = [ data EXCEPT !.Params3 = << 0, 0, 0, 0 >> ] ]

uploadData(buffer, data) == [ buffer EXCEPT !.data = data ]

Uploads(cs) == Cardinality({ i \in 1 .. Len(cs) : cs[i].call = "uploadData" })

\* ------------------------------------------------------ the change flags
\* IConfigManager::hasChanged: whether the key changed since it was last
\* queried; the query consumes the flag.
hasChanged(key, ch) == [ ret |-> key \in ch, changed |-> ch \ {key} ]

RECURSIVE QueryFrom(_, _)
\* The || chain of checkUpdateConfig from the i-th key on: left to right,
\* stopping at the first key that reports a change.
QueryFrom(i, ch) ==
    IF i > Len(Keys)
    THEN [ ret |-> FALSE, changed |-> ch ]
    ELSE LET q == hasChanged(Keys[i], ch)
         IN  IF q.ret THEN q ELSE QueryFrom(i + 1, q.changed)

\* Faulty variant: the chain ends before its last key, ColorGainB.
checkUpdateConfigOmitsLast(mode, ch) ==
    LET last == {Keys[Len(Keys)]}
        q == QueryFrom(1, ch \ last)
    IN  IF mode # Off
        THEN [ ret |-> q.ret, changed |-> q.changed \cup (ch \cap last) ]
        ELSE [ ret |-> FALSE, changed |-> ch ]

checkUpdateConfig(mode, ch) ==
    IF mode # Off THEN QueryFrom(1, ch) ELSE [ ret |-> FALSE, changed |-> ch ]

\* ------------------------------------------------------------ operations
\* The operations whose consecutive calls are told apart.
Repeatable == {"update", "reload"}

\* What an operation finds when it is called: the stored mode, the pending
\* change flags, and, for update and reload, whether the call directly
\* follows a completed call of the same operation (with the number of
\* recomputations of that call).
Snapshot(name) ==
    LET again == name \in Repeatable /\ op = name /\ ~failed
    IN  [ m_mode |-> m_mode, changed |-> changed, repeat |-> again,
          recomputes |-> IF again THEN recomputes ELSE 0 ]

DefaultValues ==
    [ k \in Tunables |->
        IF k \in {"Highlights", "Shadows", "Vibrance"} THEN 0 ELSE RawDefault ]

\* The state after the constructor: createRenderResources has run once.
InitWith(values, preset, mode) ==
    /\ cfgMode = mode
    /\ cfgPreset = preset
    /\ cfgValues = values
    /\ changed = {}
    /\ nChanges = 0
    /\ m_mode = Off
    /\ m_config = ComputeConfig(values, preset)
    /\ m_shaders = [ i \in 1 .. 3 |-> ShaderOf(i) ]
    /\ m_cbParams = uploadData(createBuffer, ComputeConfig(values, preset))
    /\ op = "construct"
    /\ failed = FALSE
    /\ recomputes = 1
    /\ calls = << Call("uploadData", "m_cbParams", NoSlice) >>
    /\ pre = [ m_mode |-> Off, changed |-> {}, repeat |-> FALSE,
               recomputes |-> 0 ]

\* The configuration a fresh installation starts with: no preset, mode Off.
Init == InitWith(DefaultValues, 0, Off)

\* The configuration manager: a tunable is written with a new value.
SetValue ==
    \E k \in WrittenKeys, v \in RawValues :
        /\ nChanges < MaxChanges
        /\ v # cfgValues[k]
        /\ cfgValues' = [ cfgValues EXCEPT ![k] = v ]
        /\ changed' = changed \cup {k}
        /\ nChanges' = nChanges + 1
        /\ op' = "set"
        /\ failed' = FALSE
        /\ recomputes' = 0
        /\ calls' = << >>
        /\ pre' = Snapshot("set")
        /\ UNCHANGED << cfgMode, cfgPreset, m_mode, m_config, m_shaders,
                        m_cbParams >>

\* The configuration manager: another preset is selected.
SetPreset ==
    \E p \in Presets :
        /\ nChanges < MaxChanges
        /\ p # cfgPreset
        /\ cfgPreset' = p
        /\ changed' = changed \cup {"SunGlasses"}
        /\ nChanges' = nChanges + 1
        /\ op' = "set"
        /\ failed' = FALSE
        /\ recomputes' = 0
        /\ calls' = << >>
        /\ pre' = Snapshot("set")
        /\ UNCHANGED << cfgMode, cfgValues, m_mode, m_config, m_shaders,
                        m_cbParams >>

\* The configuration manager: another mode is selected.
SetMode ==
    \E m \in Modes :
        /\ m # cfgMode
        /\ cfgMode' = m
        /\ op' = "set"
        /\ failed' = FALSE
        /\ recomputes' = 0
        /\ calls' = << >>
        /\ pre' = Snapshot("set")
        /\ UNCHANGED << cfgPreset, cfgValues, changed, nChanges, m_mode,
                        m_config, m_shaders, m_cbParams >>

\* Faulty variant: every enabled frame recomputes.
RecomputeAlways(mode, stored, ch) ==
    [ recompute |-> mode # Off, changed |-> ch ]

\* Faulty variant: a mode transition alone does not recompute.
RecomputeDetectorOnly(mode, stored, ch) ==
    LET q == checkUpdateConfig(mode, ch)
    IN  [ recompute |-> q.ret, changed |-> q.changed ]

\* Faulty variant: the transition to Off recomputes too.
RecomputeOnAnyTransition(mode, stored, ch) ==
    IF mode # stored
    THEN [ recompute |-> TRUE, changed |-> ch ]
    ELSE LET q == checkUpdateConfig(mode, ch)
         IN  [ recompute |-> q.ret, changed |-> q.changed ]

\* update(): whether updateConfig runs, and the flags the decision consumes.
\* hasModeChanged || checkUpdateConfig(mode) queries no key when the mode
\* changed.
UpdateDecision(mode, stored, ch) ==
    IF mode # Off
    THEN IF mode # stored
         THEN [ recompute |-> TRUE, changed |-> ch ]
         ELSE LET q == checkUpdateConfig(mode, ch)
              IN  [ recompute |-> q.ret, changed |-> q.changed ]
    ELSE [ recompute |-> FALSE, changed |-> ch ]

update ==
    \E out \in updateConfig(cfgValues, cfgPreset) :
        LET d == UpdateDecision(cfgMode, m_mode, changed)
            c == out.block
            aborts == d.recompute /\ out.abort
        IN  /\ m_mode' = cfgMode
            /\ changed' = d.changed
            /\ IF d.recompute
               THEN /\ m_config' = IF aborts THEN m_config ELSE c
                    /\ m_cbParams' =
                          IF aborts THEN m_cbParams ELSE uploadData(m_cbParams, c)
                    /\ recomputes' = 1
                    /\ calls' =
                          IF aborts THEN << >>
                          ELSE << Call("uploadData", "m_cbParams", NoSlice) >>
               ELSE /\ UNCHANGED << m_config, m_cbParams >>
                    /\ recomputes' = 0
                    /\ calls' = << >>
            /\ op' = IF aborts THEN "abort" ELSE "update"
            /\ failed' = aborts
            /\ pre' = Snapshot("update")
            /\ UNCHANGED << cfgMode, cfgPreset, cfgValues, nChanges, m_shaders >>

\* Faulty variant: the pass-through program is never selected.
SelectShaderIgnoreMode(mode, isArray) == 1 + (IF isArray THEN 1 ELSE 0)

\* shader index of process(): 1 + input->isArray() when enabled, else 0.
SelectShader(mode, isArray) ==
    IF mode # Off THEN 1 + (IF isArray THEN 1 ELSE 0) ELSE 0

Slices == {0, 1}

Texture(name, isArray) == [ name |-> name, isArray |-> isArray ]

\* Faulty variant: the dispatch is issued before the bindings.
ProcessCallsDispatchFirst(shader, cb, input, output, slice) ==
    << Call("setShader", shader, NoSlice),
       Call("dispatchShader", "none", NoSlice),
       Call("setShaderInput", cb, NoSlice),
       Call("setShaderInput", input, slice),
       Call("setShaderOutput", output, slice) >>

\* The device calls of process(), in program order.
ProcessCalls(shader, cb, input, output, slice) ==
    << Call("setShader", shader, NoSlice),
       Call("setShaderInput", cb, NoSlice),
       Call("setShaderInput", input, slice),
       Call("setShaderOutput", output, slice),
       Call("dispatchShader", "none", NoSlice) >>

\* Faulty variant: process() selects by the mode of the configuration.
processFromSource ==
    \E isArray \in BOOLEAN, slice \in Slices :
        LET shader == SelectShader(cfgMode, isArray)
        IN  /\ calls' = ProcessCalls(m_shaders[shader + 1], m_cbParams,
                                     Texture("input", isArray),
                                     Texture("output", isArray), slice)
            /\ op' = "process"
            /\ failed' = FALSE
            /\ recomputes' = 0
            /\ pre' = Snapshot("process")
            /\ UNCHANGED << cfgVars, m_mode, m_config, m_shaders, m_cbParams >>

\* process(): the stored mode selects the program; one dispatch.
process ==
    \E isArray \in BOOLEAN, slice \in Slices :
        LET shader == SelectShader(m_mode, isArray)
        IN  /\ calls' = ProcessCalls(m_shaders[shader + 1], m_cbParams,
                                     Texture("input", isArray),
                                     Texture("output", isArray), slice)
            /\ op' = "process"
            /\ failed' = FALSE
            /\ recomputes' = 0
            /\ pre' = Snapshot("process")
            /\ UNCHANGED << cfgVars, m_mode, m_config, m_shaders, m_cbParams >>

\* The steps of createRenderResources that can fail: the three program
\* compilations and the buffer allocation.  0 stands for no failure.
FailPoints == 0 .. 4

\* Faulty variant: each slot takes over the program of the next slot.
BuiltShadersRotated(shaders, failAt) ==
    [ i \in 1 .. 3 |->
        IF failAt = 0 \/ i < failAt
        THEN [ shaders[(i % 3) + 1] EXCEPT !.build = "current" ]
        ELSE Previous(shaders[i]) ]

\* m_shaders after createRenderResources ran with a failure at step failAt:
\* each slot is assigned as soon as its program is built.
BuiltShaders(shaders, failAt) ==
    [ i \in 1 .. 3 |->
        IF failAt = 0 \/ i < failAt THEN ShaderOf(i) ELSE Previous(shaders[i]) ]

\* createRenderResources run up to a failure at step failAt (0: to its end),
\* where "recompute" tells whether its last statement, updateConfig, runs.
BuildResources(failAt, recompute) ==
    \E out \in updateConfig(cfgValues, cfgPreset) :
        LET c == out.block
            aborts == recompute /\ out.abort
            stores == recompute /\ ~out.abort
            built == [ i \in 1 .. 3 |-> Call("createQuadShader", i - 1, NoSlice) ]
        IN  /\ m_shaders' = BuiltShaders(m_shaders, failAt)
            /\ m_cbParams' =
                  IF failAt # 0 THEN Previous(m_cbParams)
                  ELSE IF stores THEN uploadData(createBuffer, c)
                  ELSE createBuffer
            /\ m_config' = IF stores THEN c ELSE m_config
            /\ recomputes' = IF recompute THEN 1 ELSE 0
            /\ calls' =
                  IF failAt # 0 THEN SubSeq(built, 1, failAt - 1)
                  ELSE built \o << Call("createBuffer", "m_cbParams", NoSlice) >>
                             \o (IF stores
                                 THEN << Call("uploadData", "m_cbParams", NoSlice) >>
                                 ELSE << >>)
            /\ failed' = (failAt # 0 \/ aborts)
            /\ op' = IF aborts THEN "abort" ELSE "reload"
            /\ pre' = Snapshot("reload")
            /\ UNCHANGED << cfgVars, m_mode >>

\* Faulty variant: the final updateConfig runs only in a non-Off mode.
createRenderResourcesWhenEnabled(failAt) ==
    BuildResources(failAt, failAt = 0 /\ m_mode # Off)

\* createRenderResources: updateConfig is its last statement, reached when
\* nothing before it failed.
createRenderResources(failAt) == BuildResources(failAt, failAt = 0)

\* reload(): createRenderResources.
reload == \E failAt \in FailPoints : createRenderResources(failAt)

Next == SetValue \/ SetPreset \/ SetMode \/ update \/ process \/ reload

Spec == Init /\ [][Next]_vars

\* ------------------------------------------------- the normalizer alone
\* The controller constructed over a configuration in which one tunable
\* holds any value of its range, under any preset; reload() then recomputes
\* the block from it.
NormInit ==
    \E k \in Tunables, r \in 0 .. Scale, p \in Presets :
        InitWith([ DefaultValues EXCEPT ![k] = r ], p, Off)

NormNext == createRenderResources(0)

SpecNorm == NormInit /\ [][NormNext]_vars

\* The ends and the middle of a tunable's range.
EdgeValues == {0, RawDefault, Scale}

\* The tunables some preset biases (kBias has a non-zero entry for them).
BiasedKeys ==
    { "Contrast", "Brightness", "Exposure", "Saturation", "Highlights",
      "Shadows", "Vibrance" }

\* The controller constructed over a configuration in which every biased
\* tunable is, independently, at an end or in the middle of its range, and
\* the three colour gains share one such value, under any preset.
EdgeInit ==
    \E f \in [ BiasedKeys -> EdgeValues ], g \in EdgeValues, p \in Presets :
        InitWith([ k \in Tunables |-> IF k \in BiasedKeys THEN f[k] ELSE g ],
                 p, Off)

SpecEdge == EdgeInit /\ [][NormNext]_vars

\* --------------------------------------- the operations at the boundary
\* The controller constructed over a configuration in which one tunable is
\* at an end or in the middle of its range, under any preset; then any
\* sequence of mode changes, update(), process() and reload().
BoundInit ==
    \E k \in Tunables, r \in EdgeValues, p \in Presets :
        InitWith([ DefaultValues EXCEPT ![k] = r ], p, Off)

BoundNext == SetMode \/ update \/ process \/ reload

SpecBound == BoundInit /\ [][BoundNext]_vars

\* ------------------------------------------------- the profile lookup
\* The suffix table of GetUserParams: the default profile and four
\* alternate sets.
lut == << "", "_u1", "_u2", "_u3", "_u4" >>

\* The largest profile index explored.
MaxIndex == 7

\* The position (from 0) at which GetUserParams reads the table:
\* std::min(index, std::size(lut)).
SuffixPosition(index) == IF index < Len(lut) THEN index ELSE Len(lut)

\* GetUserParams called with any profile index.  A read past the table's
\* end is undefined: the call returns whatever lies there, or ends the
\* process.
GetUserParamsCall ==
    \E index \in 0 .. MaxIndex :
        LET pos == SuffixPosition(index)
        IN  \E crash \in (IF pos < Len(lut) THEN {FALSE} ELSE BOOLEAN) :
                /\ calls' = << Call("GetUserParams", index, NoSlice),
                               Call("lut", pos, NoSlice) >>
                /\ op' = IF crash THEN "abort" ELSE "GetUserParams"
                /\ failed' = crash
                /\ recomputes' = 0
                /\ pre' = Snapshot("GetUserParams")
                /\ UNCHANGED << cfgVars, m_mode, m_config, m_shaders,
                                m_cbParams >>

SpecProfile == BoundInit /\ [][GetUserParamsCall]_vars

\* ------------------------------------------- any ordinal in the setting
\* The configuration manager: the preset setting is written with any ordinal
\* it can hold; getEnumValue hands it to updateConfig as it is.
SetOrdinal ==
    \E p \in Ordinals :
        /\ nChanges < MaxChanges
        /\ p # cfgPreset
        /\ cfgPreset' = p
        /\ changed' = changed \cup {"SunGlasses"}
        /\ nChanges' = nChanges + 1
        /\ op' = "set"
        /\ failed' = FALSE
        /\ recomputes' = 0
        /\ calls' = << >>
        /\ pre' = Snapshot("set")
        /\ UNCHANGED << cfgMode, cfgValues, m_mode, m_config, m_shaders,
                        m_cbParams >>

\* Nothing runs once the process has ended.
Alive == op # "abort"

OrdNext ==
    \/ Alive /\ SetOrdinal
    \/ Alive /\ SetMode
    \/ Alive /\ update
    \/ Alive /\ reload

SpecOrdinal == Init /\ [][OrdNext]_vars
\* ------------------------------------------------------------ properties
Dispatches(cs) ==
    Cardinality({ i \in 1 .. Len(cs) : cs[i].call = "dispatchShader" })

\* C1: an update() called with a non-Off source mode equal to the stored
\* mode, while no watched key has a change pending, recomputes nothing,
\* uploads nothing and leaves the parameter block and the constant buffer
\* (handle and contents) as they were.
C1_SteadyStateIsNoOp ==
    [][ (op' = "update" /\ cfgMode # Off /\ cfgMode = m_mode /\ changed = {})
        => /\ recomputes' = 0
           /\ Uploads(calls') = 0
           /\ m_config' = m_config
           /\ m_cbParams' = m_cbParams ]_vars

\* An update() in the steady state has returned: the mode was already the
\* non-Off source mode, no flag was pending, and nothing was recomputed.
C1_Witness ==
    /\ op = "update"
    /\ cfgMode # Off
    /\ pre.m_mode = cfgMode
    /\ pre.changed = {}
    /\ recomputes = 0
    /\ calls = << >>

\* C2: of two update() calls in succession, with no setting written between
\* them, the second recomputes and uploads nothing whenever the first
\* recomputed.
C2_SecondUpdateIsNoOp ==
    (op = "update" /\ pre.repeat /\ pre.recomputes = 1)
    => (recomputes = 0 /\ Uploads(calls) = 0)

\* C3: an update() that finds the source mode different from the stored mode
\* and non-Off recomputes and uploads exactly once, whatever the change
\* flags, and queries none of them (the flags are as it found them).
C3_ModeTransitionRecomputes ==
    (op = "update" /\ pre.m_mode # m_mode /\ m_mode # Off)
    => /\ recomputes = 1
       /\ Uploads(calls) = 1
       /\ changed = pre.changed

\* An update() has taken the mode from Off to a non-Off mode with no change
\* flag pending, and recomputed once.
C3_Witness ==
    /\ op = "update"
    /\ pre.m_mode = Off
    /\ m_mode # Off
    /\ pre.changed = {}
    /\ recomputes = 1
    /\ Uploads(calls) = 1

\* C4: an update() called while the source mode is Off recomputes nothing
\* and issues no device call; it sets the stored mode to Off and changes
\* nothing else, the change flags included.
C4_UpdateOffOnlyStoresMode ==
    [][ (op' = "update" /\ cfgMode = Off)
        => /\ recomputes' = 0
           /\ calls' = << >>
           /\ m_mode' = Off
           /\ UNCHANGED << m_config, m_cbParams, m_shaders, cfgVars >> ]_vars

\* An update() has taken the mode from a non-Off mode to Off while change
\* flags were pending, without recomputing.
C4_Witness ==
    /\ op = "update"
    /\ cfgMode = Off
    /\ m_mode = Off
    /\ pre.m_mode # Off
    /\ pre.changed # {}
    /\ changed = pre.changed
    /\ recomputes = 0

\* The slot process() must select for a stored mode and an input shape.
ExpectedSlot(mode, isArray) ==
    IF mode = Off THEN 0 ELSE IF isArray THEN 2 ELSE 1

\* C5: process() binds the program of slot 0 when the stored mode is Off,
\* whatever the input, of slot 1 when the stored mode is non-Off and the
\* input is no array, of slot 2 when it is non-Off and the input is an
\* array; the index it computes is always one of 0, 1, 2.
C5_VariantSelection ==
    /\ \A m \in Modes, a \in BOOLEAN : SelectShader(m, a) \in 0 .. 2
    /\ op = "process"
       => /\ calls[1].call = "setShader"
          /\ calls[1].arg = m_shaders[ExpectedSlot(m_mode, calls[3].arg.isArray) + 1]

\* process() has run on an array input while the stored mode is Off and the
\* source mode is not: it bound the pass-through program.
C5_Witness ==
    /\ op = "process"
    /\ m_mode = Off
    /\ cfgMode # Off
    /\ calls[3].arg.isArray
    /\ calls[1].arg = m_shaders[1]
    /\ calls[1].arg.entry = "mainPassThrough"

\* C6: a process() call issues exactly one dispatch, in every mode, and
\* before it, in the same call, it has bound one of the held programs, the
\* held constant buffer, the input at the given slice and the output at the
\* same slice.
C6_OneDispatchAfterBinding ==
    op = "process"
    => /\ Dispatches(calls) = 1
       /\ \E d \in 1 .. Len(calls) :
            /\ calls[d].call = "dispatchShader"
            /\ \E i \in 1 .. d - 1 :
                 /\ calls[i].call = "setShader"
                 /\ \E k \in 1 .. 3 : calls[i].arg = m_shaders[k]
            /\ \E i \in 1 .. d - 1 :
                 /\ calls[i].call = "setShaderInput"
                 /\ calls[i].arg = m_cbParams
            /\ \E i, o \in 1 .. d - 1 :
                 /\ calls[i].call = "setShaderInput"
                 /\ calls[i].slice \in Slices
                 /\ calls[i].arg.name = "input"
                 /\ calls[o].call = "setShaderOutput"
                 /\ calls[o].slice = calls[i].slice
                 /\ calls[o].arg.name = "output"

\* process() has run while the stored mode is Off, on slice 1, and issued its
\* one dispatch as the last call.
C6_Witness ==
    /\ op = "process"
    /\ m_mode = Off
    /\ Len(calls) = 5
    /\ calls[5].call = "dispatchShader"
    /\ calls[4].slice = 1
    /\ Dispatches(calls) = 1

\* C7: a reload() that completes has built the three programs and the
\* constant buffer anew and run exactly one recomputation and one upload,
\* whatever the stored mode and the change flags: the block is the
\* normalizer's result for the current settings and the new buffer holds it.
C7_ReloadRebuildsAndRecomputes ==
    (op = "reload" /\ ~failed)
    => /\ \A i \in 1 .. 3 : m_shaders[i] = ShaderOf(i)
       /\ m_cbParams.build = "current"
       /\ recomputes = 1
       /\ Uploads(calls) = 1
       /\ calls[Len(calls)].call = "uploadData"
       /\ m_config = ComputeConfig(cfgValues, cfgPreset)
       /\ m_cbParams.data = m_config

\* reload() has completed while the stored mode is Off and no change flag is
\* pending, after a setting was written and its flag consumed: it
\* recomputed once.
C7_Witness ==
    /\ op = "reload"
    /\ ~failed
    /\ m_mode = Off
    /\ changed = {}
    /\ nChanges > 0
    /\ recomputes = 1
    /\ Uploads(calls) = 1

\* What C8 compares: stored mode, block, buffer contents, program per slot.
SameNetState ==
    /\ m_mode' = m_mode
    /\ m_config' = m_config
    /\ m_cbParams'.data = m_cbParams.data
    /\ \A i \in 1 .. 3 :
         /\ m_shaders'[i].entry = m_shaders[i].entry
         /\ m_shaders'[i].vprt = m_shaders[i].vprt

\* C8: a completed reload() that directly follows a completed reload()
\* leaves the stored mode, the parameter block, the contents of the
\* constant buffer and the program held by each slot as the first left them.
C8_ReloadIdempotent ==
    [][ (op = "reload" /\ ~failed /\ op' = "reload" /\ ~failed')
        => SameNetState ]_vars

\* Two reload() calls in succession have completed, with a non-default
\* configuration.
C8_Witness ==
    /\ op = "reload"
    /\ ~failed
    /\ pre.repeat
    /\ nChanges > 0
    /\ m_config = ComputeConfig(cfgValues, cfgPreset)
    /\ m_config # ComputeConfig(DefaultValues, 0)

\* C9: after a reload() that failed, the controller holds no mix of handles:
\* the three programs and the buffer are all of the same build.
C9_NoPartialState ==
    (op = "reload" /\ failed)
    => \A i \in 1 .. 3 : m_shaders[i].build = m_cbParams.build

\* The bound of a gain-scaled component, in millionths.
GainBound(group, i) == kGain[group][i] * Scale

BiasMoves(values, bias) ==
    \E grp \in 1 .. 3, i \in 1 .. 4 :
        LET u == GetUserParams(values)[grp][i]
            b == kBias[bias + 1][grp][i]
        IN  b # 0 /\ XMVectorSaturate(u + b) # u

\* C11 as stated: under every non-neutral preset the block differs from the
\* block the same raw settings give under preset "none".
C11_PresetsNonTrivial ==
    cfgPreset # 0 => m_config # ComputeConfig(cfgValues, 0)

\* C11, amended: under a non-neutral preset the block differs from the block
\* of preset "none" exactly when the bias moves some component; when every
\* biased component is already saturated in the direction of its bias the
\* two blocks are equal.
C11_DiffersUnlessSaturated ==
    cfgPreset # 0
    => (m_config # ComputeConfig(cfgValues, 0) <=> BiasMoves(cfgValues, cfgPreset))

\* The block was recomputed under the most extreme preset with contrast
\* already at the top of its range, and still differs from the block of
\* preset "none".
C11_Witness ==
    /\ op = "reload"
    /\ cfgPreset = 3
    /\ cfgValues["Contrast"] = Scale
    /\ BiasMoves(cfgValues, cfgPreset)
    /\ m_config # ComputeConfig(cfgValues, 0)

\* C12: updateConfig checks the preset ordinal before it indexes kBias: with
\* an ordinal outside the table it ends in a failure, having read no row,
\* computed no block and uploaded nothing; it never completes.
C12_OrdinalChecked ==
    (recomputes = 1 /\ cfgPreset \notin Presets)
    => (failed /\ Uploads(calls) = 0)

\* The setting behind each component of the block; "" marks an unused one,
\* whose raw value is 0.
ComponentKey ==
    << << "Contrast", "Brightness", "Exposure", "Saturation" >>,
       << "ColorGainR", "ColorGainG", "ColorGainB", "" >>,
       << "Highlights", "Shadows", "Vibrance", "" >> >>

RawOf(grp, i) ==
    IF ComponentKey[grp][i] = "" THEN 0 ELSE cfgValues[ComponentKey[grp][i]]

\* clamp(x, 0, 1000)
Clamp(x) == IF x < 0 THEN 0 ELSE IF x > 1000 THEN 1000 ELSE x

\* The reference value of a component, in millionths: the biased sum is
\* clamped, remapped for the first two groups, then scaled by the gain.
Reference(grp, i) ==
    LET c == Clamp(RawOf(grp, i) + kBias[cfgPreset + 1][grp][i])
        g == kGain[grp][i]
    IN  IF grp = 3 THEN c * g ELSE (2 * c - 1000) * g

BlockAt(grp, i) ==
    CASE grp = 1 -> m_config.Params1[i]
      [] grp = 2 -> m_config.Params2[i]
      [] grp = 3 -> m_config.Params3[i]

\* C13: every component of the recomputed block equals its reference value
\* (clamp of the biased sum, then remap, then gain, nothing clamped after);
\* all four Params1 settings at 500 under preset "none" give (0, 0, 0, 0),
\* and colorGainR 1000 under preset "none" gives 1.0.
C13_NormalizerReference ==
    /\ \A grp \in 1 .. 3, i \in 1 .. 4 : BlockAt(grp, i) = Reference(grp, i)
    /\ (cfgPreset = 0 /\ \A i \in 1 .. 4 : RawOf(1, i) = 500)
       => m_config.Params1 = << 0, 0, 0, 0 >>
    /\ (cfgPreset = 0 /\ cfgValues["ColorGainR"] = 1000)
       => m_config.Params2[1] = Unit

\* The block was recomputed under "deep night" with brightness 0: the sum
\* -400 saturated to 0 (giving -0.8), and exposure 500 + 200 gave 1.2, left
\* above 1 after the gain.
C13_Witness ==
    /\ op = "reload"
    /\ cfgPreset = 3
    /\ cfgValues["Brightness"] = 0
    /\ m_config.Params1[2] = 0 - 800000
    /\ m_config.Params1[3] = 1200000

\* C14: in every reachable state, under every preset of the table, each
\* component of Params1 and Params2 lies in [-g, +g] and each component of
\* Params3 in [0, g], g being the gain of that component.
C14_BoundedForEveryPreset ==
    \A i \in 1 .. 4 :
        /\ m_config.Params1[i] >= 0 - GainBound(1, i)
        /\ m_config.Params1[i] <= GainBound(1, i)
        /\ m_config.Params2[i] >= 0 - GainBound(2, i)
        /\ m_config.Params2[i] <= GainBound(2, i)
        /\ m_config.Params3[i] >= 0
        /\ m_config.Params3[i] <= GainBound(3, i)

\* An update() has recomputed the block under the most extreme preset with
\* highlights at 1000: the sum 1750 gives exactly the gain, the top of the
\* component's range.
C14_Witness ==
    /\ op = "update"
    /\ recomputes = 1
    /\ cfgPreset = 3
    /\ cfgValues["Highlights"] = Scale
    /\ m_config.Params3[1] = GainBound(3, 1)

\* C15: every recomputation is followed by exactly one upload of the block
\* into the held constant buffer, so that after construction and after every
\* completed reload(), update() or process() the buffer that process() binds
\* holds the controller's block.
C15_BufferMirrorsBlock ==
    /\ (op \in {"construct", "reload", "update", "process"} /\ ~failed)
          => m_cbParams.data = m_config
    /\ recomputes = 1
          => (Uploads(calls) = 1 /\ calls[Len(calls)].call = "uploadData")
    /\ op = "process"
          => (calls[2].call = "setShaderInput" /\ calls[2].arg = m_cbParams)

\* A completed reload() replaced the buffer, and the new buffer holds a
\* block computed from a contrast written after construction.
C15_Witness ==
    /\ op = "reload"
    /\ ~failed
    /\ m_cbParams.build = "current"
    /\ cfgValues["Contrast"] = Scale
    /\ m_cbParams.data.Params1[1] = GainBound(1, 1)

\* C16: whenever update() returns with a non-Off source mode, the held block
\* is the normalizer's result for the current raw settings and the current
\* preset, whatever settings, presets and modes were written and whatever
\* reloads and updates ran before.
C16_Freshness ==
    (op = "update" /\ cfgMode # Off)
        => m_config = ComputeConfig(cfgValues, cfgPreset)

\* update() found a change pending from the time the stored mode was Off,
\* together with a mode transition, and the block it leaves is not the one
\* of construction.
C16_Witness ==
    /\ op = "update"
    /\ cfgMode # Off
    /\ pre.m_mode = Off
    /\ pre.changed # {}
    /\ recomputes = 1
    /\ m_config # ComputeConfig(DefaultValues, 0)

\* C17: the stored mode is Off after construction; update() sets it to the
\* mode of the configuration and no other step changes it; process() selects
\* by the stored mode, so that under a stored mode Off it binds the
\* pass-through program whatever mode the configuration holds.
C17_StoredModeOwnedByUpdate ==
    /\ m_mode = Off
    /\ [][ /\ op' = "update" => m_mode' = cfgMode
           /\ op' # "update" => m_mode' = m_mode
           /\ (op' = "process" /\ m_mode = Off)
                 => (calls'[1].call = "setShader"
                     /\ calls'[1].arg = m_shaders[1]
                     /\ calls'[1].arg.entry = "mainPassThrough") ]_vars

\* process() ran while the configuration holds On and no update() has taken
\* that mode over: the stored mode is still Off.
C17_Witness ==
    /\ op = "process"
    /\ cfgMode = "On"
    /\ m_mode = Off
    /\ m_shaders[1].entry = "mainPassThrough"
    /\ calls[1].arg = m_shaders[1]

====
